---- MODULE Spec2Model ----
(***************************************************************************)
(* Model of package cache of wilhuang/goutils: the bounded TTL cache       *)
(* (Cache / AnyCache, cachettl.go and cachettl_any.go, which are the same  *)
(* design), with its three independently locked maps, its detached         *)
(* goroutines and its singleflight group; the counting key-set MulSet and  *)
(* the cancellation registry CancelMgr.                                    *)
(*                                                                         *)
(* Granularity: every region of code that runs under one lock is one       *)
(* atomic step; a `go f()` statement is merged with the step before it     *)
(* (it only adds a pending task, and reads no shared state). LockSpec      *)
(* steps through the same methods one lock operation at a time.            *)
(***************************************************************************)
EXTENDS Integers, FiniteSets, Sequences, Bags, TLC

\* ---------------------------------------------------------------- bounds
NumProcs == 2          \* client goroutines calling the cache
MaxKey == 1            \* keys are 0..MaxKey (key 0 is the zero value of T1)
NumVals == 2           \* values are 1..NumVals
MaxNow == 1            \* time.Now().Unix() ranges over 0..MaxNow
MaxTasks == 2          \* detached goroutines pending at one time
MaxLoads == 2          \* loader invocations counted per key
TTL == 2               \* outTime, in timer ticks, when expiry is enabled
MaxCalls == 3          \* calls the clients issue in one run

\* ------------------------------------------------------------- constants
MinCacheLen == 3       \* NewCache: if maxCacheLen < 3 { maxCacheLen = 3 }
ZeroKey == 0           \* var minKey T1: the zero value of the key type
ZeroVal == 0           \* the zero value of the value type

Procs == 1..NumProcs
Keys == 0..MaxKey
\* two keys more than the smallest capacity: enough to exceed capacity + 1
StoreKeys == 0..(MinCacheLen + 1)
AllKeys == Keys \cup StoreKeys
Vals == 1..NumVals
NoErr == "nil"
Errs == {"e1", "e2"}
Callbacks == 1..NumVals

VARIABLES
    m,            \* c.m: the value store, a Go map (a function on the present keys)
    lastTime,     \* c.lastTime: key -> Unix second of the last recorded access
    outTimer,     \* c.outTimer: key -> ticks left of its *time.Timer (0: not running)
    g,            \* c.g: the singleflight group, the renderings of the keys in flight
    maxCacheLen,  \* c.maxCacheLen
    outTime,      \* c.outTime
    now,          \* time.Now().Unix()
    tasks,        \* bag of detached goroutines <<kind, key>> not yet run
    th,           \* per client goroutine: position and locals of the call in progress
    ret,          \* per client goroutine: what its last Load or LoadOrStore returned
    left,         \* calls the clients may still issue
    loads,        \* history: per key, how many times a loader was invoked
    writes,       \* history: per key, how many times Store wrote it
    hist,         \* history: per key, the last event on its value-store entry
    fresh,        \* history: per key, whether its timer was armed or reset since
                  \* the key was last removed from the value store
    run,          \* the goroutines at the grain of single lock operations
    sm,           \* MulSet.m: key -> counter (uint32)
    net,          \* history: per key, Adds minus the Removes that found it (a count)
    im,           \* CancelMgr.m: key -> the cancel callback registered
    invoked,      \* history: per callback, how many times it was invoked
    dropped       \* history: the callbacks that were taken out of CancelMgr.m

vars == <<m, lastTime, outTimer, g, maxCacheLen, outTime, now, tasks, th, ret, left,
          loads, writes, hist, fresh, run, sm, net, im, invoked, dropped>>

\* ------------------------------------------------------------ Go builtins
EmptyMap == [x \in {} |-> 0]

\* delete(f, k)
MapDelete(f, k) == [x \in DOMAIN f \ {k} |-> f[x]]

\* f[k] = v
MapStore(f, k, v) == [x \in DOMAIN f \cup {k} |-> IF x = k THEN v ELSE f[x]]

\* fmt.Sprint(k) for an integer key: its decimal digits
RECURSIVE Sprint(_)
Sprint(k) == IF k < 10 THEN <<k>> ELSE Append(Sprint(k \div 10), k % 10)

\* ------------------------------------------------------------ NewCache
NewCacheLen(n) == IF n < MinCacheLen THEN MinCacheLen ELSE n

\* ---------------------------------------------------- the code's pieces
\* a Delete that leaves the value store alone
DeleteMSkipped(mm, k) == mm

\* Delete, line 49: delete(c.m, k)
DeleteM(mm, k) == MapDelete(mm, k)

\* a Delete that empties the access tracker, as Clear does
DeleteTAll(lt, k) == EmptyMap

\* Delete, line 53: delete(c.lastTime, k)
DeleteT(lt, k) == MapDelete(lt, k)

\* Clear, lines 60-62
ClearM(mm) == EmptyMap

\* Clear, lines 65-67
ClearT(lt) == EmptyMap

\* updateTime, line 74
UpdateTimeT(lt, k, t) == MapStore(lt, k, t)

\* Store, line 98
StoreM(mm, k, v) == MapStore(mm, k, v)

\* a Load that finds nothing
LoadMMisses(mm, k) == [v |-> ZeroVal, ok |-> FALSE]

\* Load, lines 122-126: (v, ok)
LoadM(mm, k) ==
    IF k \in DOMAIN mm THEN [v |-> mm[k], ok |-> TRUE]
    ELSE [v |-> ZeroVal, ok |-> FALSE]

\* Store, lines 83-85: needOut
NeedOut(lt, cap, key) == key \notin DOMAIN lt /\ Cardinality(DOMAIN lt) >= cap

\* Store, lines 86-92: the keys the scan can leave in minKey. minTime starts at
\* the current second and only a strictly smaller timestamp replaces it; the
\* map's iteration order decides among the keys that share the smallest one.
ScanMin(lt, t) ==
    LET older == {k \in DOMAIN lt : lt[k] < t}
    IN IF older = {} THEN {ZeroKey}
       ELSE {k \in older : \A j \in older : lt[k] <= lt[j]}

\* an arming goroutine that gives a registered timer the full ttl again
ArmTimerRenewed(ot, k, ttl) == MapStore(ot, k, ttl)

\* an arming goroutine with its two branches exchanged
ArmTimerSwapped(ot, k, ttl) ==
    IF k \in DOMAIN ot THEN MapStore(ot, k, ttl)
    ELSE MapStore(ot, k, ttl \div 2)

\* Store, lines 103-109: the timer registry after the arming goroutine
ArmTimer(ot, k, ttl) ==
    IF k \in DOMAIN ot THEN MapStore(ot, k, ttl \div 2)
    ELSE MapStore(ot, k, ttl)

\* a LoadOrStore that stores whatever the loader returned
ShouldStoreAlways(res) == TRUE

\* LoadOrStore, line 139: whether the result of Do is stored
ShouldStore(res) == res.err = NoErr


\* ------------------------------------------------------- detached tasks
Task(kind, k) == <<kind, k>>
Spawn(b, kind, k) == b (+) SetToBag({Task(kind, k)})
Finish(b, kind, k) == b (-) SetToBag({Task(kind, k)})
Fits(b) == BagCardinality(b) <= MaxTasks

\* the goroutine of lines 100-112, started only when c.outTime > 0
SpawnArm(b, ttl, k) == IF ttl > 0 THEN Spawn(b, "arm", k) ELSE b

\* ------------------------------------------------------ client goroutines
\* had is history: whether the key was in the value store when Store scanned
Idle == [pc |-> "idle", op |-> "none", key |-> ZeroKey, data |-> ZeroVal,
         minKey |-> ZeroKey, needOut |-> FALSE, err |-> NoErr, cid |-> 0,
         had |-> FALSE]

\* history: the last event on a key's entry, and the call that made it
\* (by = 0: a detached goroutine, or a call that has returned)
Event(kind, v, by) == [kind |-> kind, v |-> v, by |-> by]
NoEvent == Event("none", ZeroVal, 0)

\* what a call returned; cid and after are history: the loader invocation a
\* LoadOrStore shared, and the last event on the key when a Load read it
NoRet == [op |-> "none", key |-> ZeroKey, v |-> ZeroVal, ok |-> FALSE,
          err |-> NoErr, cid |-> 0, after |-> NoEvent]

cfg == <<maxCacheLen, outTime>>

\* what no method of Cache touches when a critical section is one step: the
\* goroutines inside single lock operations, the MulSet and the CancelMgr
aside == <<run, sm, net, im, invoked, dropped>>

\* The state NewCache returns, for a cache built with one of the given ttls;
\* calls: how many calls the clients issue in the run.
Start(ttls, calls) ==
    /\ m = EmptyMap
    /\ lastTime = EmptyMap
    /\ outTimer = EmptyMap
    /\ g = {}
    /\ maxCacheLen \in {NewCacheLen(n) : n \in 0..MinCacheLen}
    /\ outTime \in ttls
    /\ now = 0
    /\ tasks = EmptyBag
    /\ th = [p \in Procs |-> Idle]
    /\ ret = [p \in Procs |-> NoRet]
    /\ left = calls
    /\ loads = [k \in AllKeys |-> 0]
    /\ writes = [k \in AllKeys |-> 0]
    /\ hist = [k \in AllKeys |-> NoEvent]
    /\ fresh = [k \in AllKeys |-> FALSE]
    /\ run = EmptyBag
    /\ sm = EmptyMap
    /\ net = [k \in AllKeys |-> [hi |-> 0, lo |-> 0]]
    /\ im = EmptyMap
    /\ invoked = [f \in Callbacks |-> 0]
    /\ dropped = {}

\* A client issues a call: it is idle, and the run's calls are not used up.
Calls(p) ==
    /\ th[p].pc = "idle"
    /\ left > 0
    /\ left' = left - 1

\* ------------------------------------------------------------------ Store
\* lines 80-95: the scan under lmutex.RLock
Scanned(p, op, k, v, e, c) ==
    LET out == NeedOut(lastTime, maxCacheLen, k)
    IN \E mk \in (IF out THEN ScanMin(lastTime, now) ELSE {ZeroKey}) :
          th' = [th EXCEPT ![p] = [pc |-> "store_write", op |-> op, key |-> k,
                                   data |-> v, minKey |-> mk, needOut |-> out,
                                   err |-> e, cid |-> c,
                                   had |-> k \in DOMAIN m]]

StoreCall(p, k, v) ==
    /\ Calls(p)
    /\ Scanned(p, "Store", k, v, NoErr, 0)
    /\ ret' = [ret EXCEPT ![p] = NoRet]
    /\ UNCHANGED <<m, lastTime, outTimer, g, cfg, fresh, aside, now, tasks, loads, writes, hist>>

\* the Store that LoadOrStore calls at line 140
StoreScan(p) ==
    /\ th[p].pc = "store_scan"
    /\ Scanned(p, th[p].op, th[p].key, th[p].data, th[p].err, th[p].cid)
    /\ UNCHANGED <<m, lastTime, outTimer, g, cfg, fresh, aside, now, tasks, ret, left, loads, writes, hist>>

\* Store returns nothing; LoadOrStore returns (v, err) at line 142
StoreReturns(p) ==
    /\ th' = [th EXCEPT ![p] = Idle]
    /\ ret' = [ret EXCEPT ![p] =
                 IF th[p].op = "LoadOrStore"
                 THEN [op |-> "LoadOrStore", key |-> th[p].key, v |-> th[p].data,
                       ok |-> TRUE, err |-> th[p].err, cid |-> th[p].cid,
                       after |-> NoEvent]
                 ELSE NoRet]

\* history: when the call of p that wrote key returns, key counts as stored
\* unless another call or goroutine has touched its entry since the write
Settled(h, p) ==
    LET k == th[p].key
        j == th[p].minKey
        h1 == IF h[k].by = p THEN [h EXCEPT ![k] = Event("stored", th[p].data, 0)] ELSE h
    IN IF h1[j].by = p THEN [h1 EXCEPT ![j].by = 0] ELSE h1

\* lines 97-112, and lines 113-116 when no eviction is due
StoreWrite(p) ==
    /\ th[p].pc = "store_write"
    /\ m' = StoreM(m, th[p].key, th[p].data)
    /\ writes' = [writes EXCEPT ![th[p].key] = @ + 1]
    /\ IF th[p].needOut
       THEN /\ tasks' = SpawnArm(tasks, outTime, th[p].key)
            /\ th' = [th EXCEPT ![p].pc = "evict_m"]
            /\ hist' = [hist EXCEPT ![th[p].key] = Event("written", th[p].data, p)]
            /\ ret' = ret
       ELSE /\ tasks' = Spawn(SpawnArm(tasks, outTime, th[p].key), "updateTime", th[p].key)
            /\ hist' = [hist EXCEPT ![th[p].key] = Event("stored", th[p].data, 0)]
            /\ StoreReturns(p)
    /\ Fits(tasks')
    /\ UNCHANGED <<lastTime, outTimer, g, cfg, fresh, aside, now, left, loads>>

\* line 114, c.Delete(minKey): lines 48-50
EvictM(p) ==
    /\ th[p].pc = "evict_m"
    /\ m' = DeleteM(m, th[p].minKey)
    /\ hist' = [hist EXCEPT ![th[p].minKey] = Event("evicted", ZeroVal, p)]
    /\ th' = [th EXCEPT ![p].pc = "evict_t"]
    /\ fresh' = [fresh EXCEPT ![th[p].minKey] = FALSE]
    /\ UNCHANGED <<lastTime, outTimer, g, cfg, aside, now, tasks, ret, left, loads, writes>>

\* line 114, c.Delete(minKey): lines 52-54; then line 116
EvictT(p) ==
    /\ th[p].pc = "evict_t"
    /\ lastTime' = DeleteT(lastTime, th[p].minKey)
    /\ tasks' = Spawn(tasks, "updateTime", th[p].key)
    /\ Fits(tasks')
    /\ hist' = Settled(hist, p)
    /\ StoreReturns(p)
    /\ UNCHANGED <<m, outTimer, g, cfg, fresh, aside, now, left, loads, writes>>

\* ----------------------------------------------------------------- Delete
\* lines 48-50
DeleteCall(p, k) ==
    /\ Calls(p)
    /\ m' = DeleteM(m, k)
    /\ hist' = [hist EXCEPT ![k] = Event("deleting", ZeroVal, p)]
    /\ th' = [th EXCEPT ![p] = [Idle EXCEPT !.pc = "delete_t", !.op = "Delete", !.key = k]]
    /\ ret' = [ret EXCEPT ![p] = NoRet]
    /\ fresh' = [fresh EXCEPT ![k] = FALSE]
    /\ UNCHANGED <<lastTime, outTimer, g, cfg, aside, now, tasks, loads, writes>>

\* lines 52-55
DeleteTrack(p) ==
    /\ th[p].pc = "delete_t"
    /\ lastTime' = DeleteT(lastTime, th[p].key)
    /\ hist' = [hist EXCEPT ![th[p].key] =
                   IF @.by = p THEN Event("deleted", ZeroVal, 0) ELSE @]
    /\ th' = [th EXCEPT ![p] = Idle]
    /\ UNCHANGED <<m, outTimer, g, cfg, fresh, aside, now, tasks, ret, left, loads, writes>>

\* ------------------------------------------------------------------ Clear
\* lines 59-63
ClearCall(p) ==
    /\ Calls(p)
    /\ m' = ClearM(m)
    /\ hist' = [k \in AllKeys |-> Event("clearing", ZeroVal, p)]
    /\ th' = [th EXCEPT ![p] = [Idle EXCEPT !.pc = "clear_t", !.op = "Clear"]]
    /\ ret' = [ret EXCEPT ![p] = NoRet]
    /\ fresh' = [k \in AllKeys |-> FALSE]
    /\ UNCHANGED <<lastTime, outTimer, g, cfg, aside, now, tasks, loads, writes>>

\* lines 64-69
ClearTrack(p) ==
    /\ th[p].pc = "clear_t"
    /\ lastTime' = ClearT(lastTime)
    /\ hist' = [k \in AllKeys |->
                   IF hist[k].by = p THEN Event("cleared", ZeroVal, 0) ELSE hist[k]]
    /\ th' = [th EXCEPT ![p] = Idle]
    /\ UNCHANGED <<m, outTimer, g, cfg, fresh, aside, now, tasks, ret, left, loads, writes>>

\* ------------------------------------------------------------------- Load
\* lines 119-127
LoadCall(p, k) ==
    /\ Calls(p)
    /\ LET r == LoadM(m, k)
       IN /\ tasks' = IF r.ok THEN Spawn(tasks, "updateTime", k) ELSE tasks
          /\ ret' = [ret EXCEPT ![p] = [op |-> "Load", key |-> k, v |-> r.v,
                                        ok |-> r.ok, err |-> NoErr, cid |-> 0,
                                        after |-> hist[k]]]
    /\ Fits(tasks')
    /\ UNCHANGED <<m, lastTime, outTimer, g, cfg, fresh, aside, now, th, loads, writes, hist>>

\* ------------------------------------------------------- detached goroutines
\* updateTime, lines 72-76
UpdateTime(k) ==
    /\ BagIn(Task("updateTime", k), tasks)
    /\ lastTime' = UpdateTimeT(lastTime, k, now)
    /\ tasks' = Finish(tasks, "updateTime", k)
    /\ UNCHANGED <<m, outTimer, g, cfg, fresh, aside, now, th, ret, left, loads, writes, hist>>

\* the seconds of the wall clock
AdvanceClock ==
    /\ now < MaxNow
    /\ now' = now + 1
    /\ UNCHANGED <<m, lastTime, outTimer, g, cfg, fresh, aside, tasks, th, ret, left, loads, writes, hist>>

\* ------------------------------------------------------------ LoadOrStore
\* what a loader can return: a value, or the zero value and an error
LoaderResults ==
    [v : Vals, err : {NoErr}] \cup [v : {ZeroVal}, err : Errs]

\* lines 130-134: c.Load(k); a hit returns (v, nil)
LoadOrStoreCall(p, k) ==
    /\ Calls(p)
    /\ LET r == LoadM(m, k)
       IN IF r.ok
          THEN /\ tasks' = Spawn(tasks, "updateTime", k)
               /\ ret' = [ret EXCEPT ![p] = [op |-> "LoadOrStore", key |-> k, v |-> r.v,
                                             ok |-> TRUE, err |-> NoErr, cid |-> 0,
                                             after |-> NoEvent]]
               /\ th' = th
          ELSE /\ tasks' = tasks
               /\ ret' = [ret EXCEPT ![p] = NoRet]
               /\ th' = [th EXCEPT ![p] = [Idle EXCEPT !.pc = "do", !.op = "LoadOrStore",
                                                       !.key = k]]
    /\ Fits(tasks')
    /\ UNCHANGED <<m, lastTime, outTimer, g, cfg, fresh, aside, now, loads, writes, hist>>

\* line 135, c.g.Do(fmt.Sprint(k), ...): the first caller for a key in flight
\* runs the loader, the others wait for it
Do(p) ==
    /\ th[p].pc = "do"
    /\ LET s == Sprint(th[p].key)
       IN IF s \in g
          THEN /\ th' = [th EXCEPT ![p].pc = "wait", ![p].cid = loads[th[p].key]]
               /\ UNCHANGED <<g, loads>>
          ELSE /\ loads[th[p].key] < MaxLoads
               /\ g' = g \cup {s}
               /\ loads' = [loads EXCEPT ![th[p].key] = @ + 1]
               /\ th' = [th EXCEPT ![p].pc = "loader", ![p].cid = loads[th[p].key] + 1]
    /\ UNCHANGED <<m, lastTime, outTimer, cfg, fresh, aside, now, tasks, ret, left, writes, hist>>

\* lines 135-142: the loader returns r; the key leaves the group, and the
\* leader and every waiter take r: store it (line 140), or return it (line 142)
Sharers(p) ==
    {p} \cup {q \in Procs : th[q].pc = "wait" /\ Sprint(th[q].key) = Sprint(th[p].key)}

LoaderReturns(p, r) ==
    /\ th[p].pc = "loader"
    /\ g' = g \ {Sprint(th[p].key)}
    /\ th' = [q \in Procs |->
                IF q \notin Sharers(p) THEN th[q]
                ELSE IF ShouldStore(r)
                     THEN [th[q] EXCEPT !.pc = "store_scan", !.data = r.v, !.err = r.err]
                     ELSE Idle]
    /\ ret' = [q \in Procs |->
                IF q \in Sharers(p) /\ ~ShouldStore(r)
                THEN [op |-> "LoadOrStore", key |-> th[q].key, v |-> r.v, ok |-> FALSE,
                      err |-> r.err, cid |-> th[q].cid, after |-> NoEvent]
                ELSE ret[q]]
    /\ UNCHANGED <<m, lastTime, outTimer, cfg, fresh, aside, now, tasks, left, loads, writes, hist>>

\* ------------------------------------------------------------ expiry timers
\* lines 102-110: the arming goroutine, under tmutex
Arm(k) ==
    /\ BagIn(Task("arm", k), tasks)
    /\ outTimer' = ArmTimer(outTimer, k, outTime)
    /\ tasks' = Finish(tasks, "arm", k)
    /\ fresh' = [fresh EXCEPT ![k] = TRUE]
    /\ UNCHANGED <<m, lastTime, g, cfg, aside, now, th, ret, left, loads, writes, hist>>

\* One tick of timer time: every running timer loses a tick, and a timer that
\* reaches 0 starts its callback (lines 106-108) on a goroutine of its own.
Running == {k \in DOMAIN outTimer : outTimer[k] > 0}
Due == {k \in Running : outTimer[k] = 1}

RECURSIVE SpawnAll(_, _, _)
SpawnAll(b, kind, ks) ==
    IF ks = {} THEN b
    ELSE LET k == CHOOSE x \in ks : TRUE
         IN SpawnAll(Spawn(b, kind, k), kind, ks \ {k})

Tick ==
    /\ Running # {}
    /\ outTimer' = [k \in DOMAIN outTimer |-> IF outTimer[k] > 0 THEN outTimer[k] - 1 ELSE 0]
    /\ tasks' = SpawnAll(tasks, "expire_m", Due)
    /\ Fits(tasks')
    /\ UNCHANGED <<m, lastTime, g, cfg, fresh, aside, now, th, ret, left, loads, writes, hist>>

\* line 107, c.Delete(key) on the timer's goroutine: lines 48-50
ExpireM(k) ==
    /\ BagIn(Task("expire_m", k), tasks)
    /\ m' = DeleteM(m, k)
    /\ hist' = [hist EXCEPT ![k] = Event("expired", ZeroVal, 0)]
    /\ tasks' = Spawn(Finish(tasks, "expire_m", k), "expire_t", k)
    /\ fresh' = [fresh EXCEPT ![k] = FALSE]
    /\ UNCHANGED <<lastTime, outTimer, g, cfg, aside, now, th, ret, left, loads, writes>>

\* line 107, c.Delete(key) on the timer's goroutine: lines 52-55
ExpireT(k) ==
    /\ BagIn(Task("expire_t", k), tasks)
    /\ lastTime' = DeleteT(lastTime, k)
    /\ tasks' = Finish(tasks, "expire_t", k)
    /\ UNCHANGED <<m, outTimer, g, cfg, fresh, aside, now, th, ret, left, loads, writes, hist>>

\* ------------------------------------------- the methods, lock by lock
\* A goroutine at this grain is the sequence of lock operations, go statements
\* and singleflight calls it still has to execute, with the locks it holds.
GMutex == "gmutex"
LMutex == "lmutex"
TMutex == "tmutex"

\* a Delete called from the arming goroutine itself, while it holds tmutex
ArmProgInline ==
    <<<<"Lock", TMutex>>, <<"Lock", GMutex>>, <<"Unlock", GMutex>>,
      <<"Lock", LMutex>>, <<"Unlock", LMutex>>, <<"Unlock", TMutex>>>>

\* Store, lines 102-110: Reset or AfterFunc under tmutex; the runtime runs
\* the callback on a goroutine of its own
ArmProg == <<<<"Lock", TMutex>>, <<"timer", "Delete">>, <<"Unlock", TMutex>>>>

\* Delete, lines 48-54 (Clear, lines 59-68, takes the same locks in the same order)
DeleteProg ==
    <<<<"Lock", GMutex>>, <<"Unlock", GMutex>>, <<"Lock", LMutex>>, <<"Unlock", LMutex>>>>

\* updateTime, lines 73-75
UpdateTimeProg == <<<<"Lock", LMutex>>, <<"Unlock", LMutex>>>>

\* Load, lines 120-126: the deferred RUnlock runs after the go statement
LoadProg(hit) ==
    <<<<"RLock", GMutex>>>> \o (IF hit THEN <<<<"go", "updateTime">>>> ELSE <<>>)
        \o <<<<"RUnlock", GMutex>>>>

\* Store, lines 82-116
StoreProg(needOut, ttl) ==
    <<<<"RLock", LMutex>>, <<"RUnlock", LMutex>>, <<"Lock", GMutex>>, <<"Unlock", GMutex>>>>
        \o (IF ttl > 0 THEN <<<<"go", "arm">>>> ELSE <<>>)
        \o (IF needOut THEN DeleteProg ELSE <<>>)
        \o <<<<"go", "updateTime">>>>

\* LoadOrStore, lines 131-142
LoadOrStoreProg(hit, stores, needOut, ttl) ==
    IF hit THEN LoadProg(TRUE)
    ELSE LoadProg(FALSE) \o <<<<"Do", "enter">>>>
            \o (IF stores THEN StoreProg(needOut, ttl) ELSE <<>>)

\* what a go statement or a timer starts
Started(name) ==
    CASE name = "updateTime" -> UpdateTimeProg
      [] name = "arm" -> ArmProg
      [] name = "Delete" -> DeleteProg

\* the calls a client can make on a cache with the given ttl
Programs(ttl) ==
    {DeleteProg} \cup {LoadProg(h) : h \in BOOLEAN}
        \cup {StoreProg(n, ttl) : n \in BOOLEAN}
        \cup {LoadOrStoreProg(h, s, n, ttl) : h \in BOOLEAN, s \in BOOLEAN, n \in BOOLEAN}

Goroutine(prog, client) == [todo |-> prog, held |-> {}, pend |-> FALSE, client |-> client]

Goroutines == BagToSet(run)

\* sync.RWMutex and sync.Mutex: Lock needs the lock free; RLock needs no
\* writer holding it and no Lock call pending on it
HeldBy(mode, l) == {r \in Goroutines : <<mode, l>> \in r.held}
Pending(l) == {r \in Goroutines : r.pend /\ r.todo # <<>> /\ Head(r.todo) = <<"Lock", l>>}
CanLock(l) == HeldBy("w", l) = {} /\ HeldBy("r", l) = {}
CanRLock(l) == HeldBy("w", l) = {} /\ Pending(l) = {}

At(r, op) == r.todo # <<>> /\ Head(r.todo)[1] = op
Lock(r) == Head(r.todo)[2]

\* the goroutine r has become r2; a goroutine that has nothing left to do and
\* holds nothing is gone
Becomes(r, r2) ==
    (run (-) SetToBag({r}))
        (+) (IF r2.todo = <<>> /\ r2.held = {} THEN EmptyBag ELSE SetToBag({r2}))

Advanced(r) == [r EXCEPT !.todo = Tail(@), !.pend = FALSE]

storeVars == <<m, lastTime, outTimer, g, cfg, now, tasks, loads, writes, hist, fresh>>
cacheVars == <<storeVars, th, ret>>
setVars == <<sm, net>>
mgrVars == <<im, invoked, dropped>>

Clients == {r \in Goroutines : r.client}
NumClients == BagCardinality([r \in Clients |-> CopiesIn(r, run)])

\* a client calls a method
LockCall(prog) ==
    /\ left > 0
    /\ NumClients < NumProcs
    /\ left' = left - 1
    /\ run' = run (+) SetToBag({Goroutine(prog, TRUE)})
    /\ UNCHANGED <<cacheVars, setVars, mgrVars>>

\* Lock on a lock that is not free: the call is pending, and keeps readers out
Wait(r) ==
    /\ At(r, "Lock") /\ ~r.pend /\ ~CanLock(Lock(r))
    /\ run' = Becomes(r, [r EXCEPT !.pend = TRUE])
    /\ UNCHANGED <<cacheVars, left, setVars, mgrVars>>

Acquire(r) ==
    /\ \/ At(r, "Lock") /\ CanLock(Lock(r))
       \/ At(r, "RLock") /\ CanRLock(Lock(r))
    /\ run' = Becomes(r, [Advanced(r) EXCEPT !.held =
                 @ \cup {<<IF At(r, "Lock") THEN "w" ELSE "r", Lock(r)>>}])
    /\ UNCHANGED <<cacheVars, left, setVars, mgrVars>>

Release(r) ==
    /\ At(r, "Unlock") \/ At(r, "RUnlock")
    /\ run' = Becomes(r, [Advanced(r) EXCEPT !.held =
                 @ \ {<<IF At(r, "Unlock") THEN "w" ELSE "r", Lock(r)>>}])
    /\ UNCHANGED <<cacheVars, left, setVars, mgrVars>>

\* a go statement, or a timer set by AfterFunc or Reset: the goroutine started
\* holds nothing
Go(r) ==
    /\ At(r, "go") \/ At(r, "timer")
    /\ run' = Becomes(r, Advanced(r)) (+) SetToBag({Goroutine(Started(Lock(r)), FALSE)})
    /\ UNCHANGED <<cacheVars, left, setVars, mgrVars>>

\* line 135, c.g.Do: the first caller runs the loader and leaves when it has
\* returned; the others wait until no loader is running
Leaders == {r \in Goroutines : r.todo # <<>> /\ Head(r.todo) = <<"Do", "leave">>}

DoEnter(r) ==
    /\ r.todo # <<>> /\ Head(r.todo) = <<"Do", "enter">>
    /\ run' = Becomes(r, [r EXCEPT !.todo =
                 <<<<"Do", IF Leaders = {} THEN "leave" ELSE "wait">>>> \o Tail(@)])
    /\ UNCHANGED <<cacheVars, left, setVars, mgrVars>>

DoLeave(r) ==
    /\ r.todo # <<>>
    /\ \/ Head(r.todo) = <<"Do", "leave">>
       \/ Head(r.todo) = <<"Do", "wait">> /\ Leaders = {}
    /\ run' = Becomes(r, Advanced(r))
    /\ UNCHANGED <<cacheVars, left, setVars, mgrVars>>

\* a goroutine that cannot take its next step now
Blocked(r) ==
    \/ r.todo = <<>>
    \/ At(r, "Lock") /\ ~CanLock(Lock(r))
    \/ At(r, "RLock") /\ ~CanRLock(Lock(r))
    \/ Head(r.todo) = <<"Do", "wait">> /\ Leaders # {}

\* ----------------------------------------------------------------- MulSet
\* The counters are uint32 (m map[T]uint32). A number is written in two
\* halves of 16 bits, hi * Half + lo; a count has a hi of any size, a counter
\* of the map keeps the 16 low bits of hi.
Half == 65536

Num(hi, lo) == [hi |-> hi, lo |-> lo]
Zero == Num(0, 0)
One == Num(0, 1)
MaxUint32 == Num(Half - 1, Half - 1)

Plus(a, b) == Num(a.hi + b.hi + ((a.lo + b.lo) \div Half), (a.lo + b.lo) % Half)
MinusOne(a) == IF a.lo = 0 THEN Num(a.hi - 1, Half - 1) ELSE Num(a.hi, a.lo - 1)
AtMost(a, b) == a.hi < b.hi \/ (a.hi = b.hi /\ a.lo <= b.lo)

\* the conversion to uint32
Uint32(a) == Num(a.hi % Half, a.lo)

\* the counter of k: v, ok := s.m[k]; if !ok { v = 0 }
Counter(s, k) == IF k \in DOMAIN s THEN s[k] ELSE Zero

\* Add, lines 23-27
AddS(s, k) == MapStore(s, k, Uint32(Plus(Counter(s, k), One)))

\* Contains, lines 33-35
ContainsS(s, k) == k \in DOMAIN s

\* a Remove that deletes the key only when its counter is already 0
RemoveSLate(s, k) ==
    IF k \notin DOMAIN s THEN s
    ELSE IF s[k] = Zero THEN MapDelete(s, k) ELSE MapStore(s, k, MinusOne(s[k]))

\* Remove, lines 40-46
RemoveS(s, k) ==
    IF k \notin DOMAIN s THEN s
    ELSE IF AtMost(s[k], One) THEN MapDelete(s, k) ELSE MapStore(s, k, MinusOne(s[k]))

\* n Adds of k, one after another: the counter they leave
AddSMany(s, k, n) == MapStore(s, k, Uint32(Plus(Counter(s, k), n)))

\* a client calls Add(k) n times in a row, no other call in between
AddCall(p, k, n) ==
    /\ Calls(p)
    /\ sm' = IF n = One THEN AddS(sm, k) ELSE AddSMany(sm, k, n)
    /\ net' = [net EXCEPT ![k] = Plus(@, n)]
    /\ ret' = [ret EXCEPT ![p] = NoRet]
    /\ UNCHANGED <<storeVars, th, run, mgrVars>>

ContainsCall(p, k) ==
    /\ Calls(p)
    /\ ret' = [ret EXCEPT ![p] = [NoRet EXCEPT !.op = "Contains", !.key = k,
                                               !.ok = ContainsS(sm, k)]]
    /\ UNCHANGED <<storeVars, th, run, setVars, mgrVars>>

RemoveCall(p, k) ==
    /\ Calls(p)
    /\ sm' = RemoveS(sm, k)
    /\ net' = [net EXCEPT ![k] = IF k \in DOMAIN sm THEN MinusOne(@) ELSE @]
    /\ ret' = [ret EXCEPT ![p] = NoRet]
    /\ UNCHANGED <<storeVars, th, run, mgrVars>>

\* -------------------------------------------------------------- CancelMgr
\* Store, lines 34-36
StoreI(i, k, f) == MapStore(i, k, f)

\* Cancel, lines 21-23: (cancel, ok)
ReadI(i, k) == IF k \in DOMAIN i THEN [v |-> i[k], ok |-> TRUE] ELSE [v |-> 0, ok |-> FALSE]

\* Cancel, lines 27-29
DeleteI(i, k) == MapDelete(i, k)

\* a callback that no Store has registered yet: every Store brings its own
Range(i) == {i[k] : k \in DOMAIN i}
Unused(f) ==
    /\ f \notin Range(im) /\ f \notin dropped /\ invoked[f] = 0
    /\ \A p \in Procs : ~(th[p].op = "Cancel" /\ th[p].data = f)

StoreCallback(p, k, f) ==
    /\ Calls(p)
    /\ Unused(f)
    /\ im' = StoreI(im, k, f)
    /\ ret' = [ret EXCEPT ![p] = NoRet]
    /\ UNCHANGED <<storeVars, th, run, setVars, invoked, dropped>>

\* Cancel, lines 21-26: the read under mu.RLock
CancelCall(p, k) ==
    /\ Calls(p)
    /\ LET r == ReadI(im, k)
       IN th' = IF r.ok
                THEN [th EXCEPT ![p] = [Idle EXCEPT !.pc = "cancel_delete", !.op = "Cancel",
                                                    !.key = k, !.data = r.v]]
                ELSE th
    /\ ret' = [ret EXCEPT ![p] = NoRet]
    /\ UNCHANGED <<storeVars, run, setVars, mgrVars>>

\* Cancel, lines 27-29: the delete under mu.Lock
CancelDelete(p) ==
    /\ th[p].pc = "cancel_delete"
    /\ im' = DeleteI(im, th[p].key)
    /\ dropped' = dropped \cup {im[k] : k \in DOMAIN im \cap {th[p].key}}
    /\ th' = [th EXCEPT ![p].pc = "cancel_call"]
    /\ UNCHANGED <<storeVars, ret, left, run, setVars, invoked>>

\* Cancel, line 30: cancel()
CancelInvoke(p) ==
    /\ th[p].pc = "cancel_call"
    /\ invoked' = [invoked EXCEPT ![th[p].data] = @ + 1]
    /\ th' = [th EXCEPT ![p] = Idle]
    /\ UNCHANGED <<storeVars, ret, left, run, setVars, im, dropped>>

\* --------------------------------------------------------- specifications
Quiescent ==
    /\ \A p \in Procs : th[p].pc = "idle"
    /\ tasks = EmptyBag

\* Store, Load, Delete and Clear, with the detached goroutines, the timers and
\* the clock. The keys 0..MaxKey are fewer than the smallest capacity, so that
\* no Store on them finds an eviction due.
BasicNext ==
    \/ \E p \in Procs, k \in Keys, v \in Vals : StoreCall(p, k, v)
    \/ \E p \in Procs : StoreWrite(p)
    \/ \E p \in Procs, k \in Keys : DeleteCall(p, k)
    \/ \E p \in Procs : DeleteTrack(p)
    \/ \E p \in Procs : ClearCall(p)
    \/ \E p \in Procs : ClearTrack(p)
    \/ \E p \in Procs, k \in Keys : LoadCall(p, k)
    \/ \E k \in Keys : UpdateTime(k)
    \/ \E k \in Keys : Arm(k)
    \/ Tick
    \/ \E k \in Keys : ExpireM(k)
    \/ \E k \in Keys : ExpireT(k)
    \/ AdvanceClock

\* Every operation, called by NumProcs clients on keys 0..MaxKey, on a cache
\* with or without expiry.
Init == Start({0, TTL}, MaxCalls)

Next ==
    \/ BasicNext
    \/ \E p \in Procs, k \in Keys : LoadOrStoreCall(p, k)
    \/ \E p \in Procs : Do(p)
    \/ \E p \in Procs, r \in LoaderResults : LoaderReturns(p, r)
    \/ \E p \in Procs : StoreScan(p)

Spec == Init /\ [][Next]_vars

\* Store, Load, Delete and Clear on a cache with expiry. The Go scheduler runs
\* every started goroutine and the runtime fires every running timer.
TtlInit == Start({TTL}, MaxCalls)

Fairness ==
    /\ \A k \in Keys : WF_vars(UpdateTime(k))
    /\ \A k \in Keys : WF_vars(Arm(k))
    /\ \A k \in Keys : WF_vars(ExpireM(k))
    /\ \A k \in Keys : WF_vars(ExpireT(k))
    /\ WF_vars(Tick)

TtlSpec == TtlInit /\ [][BasicNext]_vars /\ Fairness

\* Store, called by NumProcs clients on capacity + 2 keys, on a cache without
\* expiry: the workload of the capacity bound.
StoreInit == Start({0}, MinCacheLen + 2)

StoreNext ==
    \/ \E p \in Procs, k \in StoreKeys, v \in Vals : StoreCall(p, k, v)
    \/ \E p \in Procs : StoreWrite(p)
    \/ \E p \in Procs : EvictM(p)
    \/ \E p \in Procs : EvictT(p)
    \/ \E k \in StoreKeys : UpdateTime(k)
    \/ AdvanceClock

StoreSpec == StoreInit /\ [][StoreNext]_vars

\* Store and Load called sequentially: a call is issued only when the call
\* before it has returned and its recency update has run.
SeqInit == Start({0}, MinCacheLen + 2)

SeqNext ==
    \/ \E p \in Procs, k \in StoreKeys, v \in Vals : Quiescent /\ StoreCall(p, k, v)
    \/ \E p \in Procs, k \in StoreKeys : Quiescent /\ LoadCall(p, k)
    \/ \E p \in Procs : StoreWrite(p)
    \/ \E p \in Procs : EvictM(p)
    \/ \E p \in Procs : EvictT(p)
    \/ \E k \in StoreKeys : UpdateTime(k)
    \/ AdvanceClock

SeqSpec == SeqInit /\ [][SeqNext]_vars

\* Concurrent LoadOrStore calls on a cache without expiry: every call is
\* issued before any call returns.
ConcInit == Start({0}, MaxCalls)

NoneReturned == \A q \in Procs : th[q].pc = "idle" => ret[q].op = "none"

ConcNext ==
    \/ \E p \in Procs, k \in Keys : NoneReturned /\ LoadOrStoreCall(p, k)
    \/ \E p \in Procs : Do(p)
    \/ \E p \in Procs, r \in LoaderResults : LoaderReturns(p, r)
    \/ \E p \in Procs : StoreScan(p)
    \/ \E p \in Procs : StoreWrite(p)
    \/ \E k \in Keys : UpdateTime(k)
    \/ AdvanceClock

ConcSpec == ConcInit /\ [][ConcNext]_vars

\* The methods at the grain of single lock operations: NumProcs clients call
\* them, and every go statement and every timer starts a goroutine.
LockInit == Start({0, TTL}, MaxCalls)

LockNext ==
    \/ \E prog \in Programs(outTime) : LockCall(prog)
    \/ \E r \in Goroutines : Wait(r)
    \/ \E r \in Goroutines : Acquire(r)
    \/ \E r \in Goroutines : Release(r)
    \/ \E r \in Goroutines : Go(r)
    \/ \E r \in Goroutines : DoEnter(r)
    \/ \E r \in Goroutines : DoLeave(r)

LockSpec == LockInit /\ [][LockNext]_vars

\* The MulSet: Add, Contains and Remove, called by NumProcs clients. An Add may
\* stand for the Adds that fill a counter up to the last value it can hold.
MulInit == Start({0}, MaxCalls + 1)

AddRuns == {One, MaxUint32}

MulNext ==
    \/ \E p \in Procs, k \in Keys, n \in AddRuns : AddCall(p, k, n)
    \/ \E p \in Procs, k \in Keys : ContainsCall(p, k)
    \/ \E p \in Procs, k \in Keys : RemoveCall(p, k)

MulSpec == MulInit /\ [][MulNext]_vars

\* The CancelMgr: Store and Cancel, called by NumProcs clients.
MgrInit == Start({0}, MaxCalls + 1)

MgrNext ==
    \/ \E p \in Procs, k \in Keys, f \in Callbacks : StoreCallback(p, k, f)
    \/ \E p \in Procs, k \in Keys : CancelCall(p, k)
    \/ \E p \in Procs : CancelDelete(p)
    \/ \E p \in Procs : CancelInvoke(p)

MgrSpec == MgrInit /\ [][MgrNext]_vars

\* ------------------------------------------------------------------ claims
Returned(p, op, k) == th[p].pc = "idle" /\ ret[p].op = op /\ ret[p].key = k

\* C1: N concurrent LoadOrStore(k, loader) calls for a key absent from the
\* value store invoke the loader exactly once, under every interleaving, and
\* all of them return the same value (or the same error).
C1_LoaderOnce ==
    \A k \in Keys :
        /\ loads[k] <= 1
        /\ \A p \in Procs : Returned(p, "LoadOrStore", k) => loads[k] = 1
        /\ \A p, q \in Procs :
              Returned(p, "LoadOrStore", k) /\ Returned(q, "LoadOrStore", k)
              => ret[p].v = ret[q].v /\ ret[p].err = ret[q].err

\* C2: after any sequence and interleaving of Store calls and recency updates,
\* the value store holds at most capacity + 1 entries.
C2_AtMostCapacityPlusOne == Cardinality(DOMAIN m) <= maxCacheLen + 1

\* C3: a quiescent cache holds at most capacity entries; more than capacity
\* entries exist only between the admission of an entry and the eviction of
\* its victim.
C3_QuiescentWithinCapacity ==
    /\ Quiescent => Cardinality(DOMAIN m) <= maxCacheLen
    /\ Cardinality(DOMAIN m) > maxCacheLen => \E p \in Procs : th[p].pc = "evict_m"

\* C4: after Store(k, v) has returned, and until a Delete(k), a Clear, an
\* eviction of k, an expiry of k or another Store(k, _), Load(k) returns
\* (v, true).
C4_StoredIsLoaded ==
    /\ \A k \in AllKeys :
          hist[k].kind = "stored" => LoadM(m, k) = [v |-> hist[k].v, ok |-> TRUE]
    /\ \A p \in Procs :
          ret[p].op = "Load" /\ ret[p].after.kind = "stored"
          => ret[p].ok /\ ret[p].v = ret[p].after.v

\* C6: with capacity 3, when four distinct keys are stored one after another,
\* the fourth Store evicts the key with the smallest recorded timestamp among
\* the first three, and exactly 3 entries remain.
FourStoredInTurn ==
    /\ maxCacheLen = 3
    /\ left = MinCacheLen + 2 - 4
    /\ \A k \in AllKeys : writes[k] <= 1
    /\ Cardinality({k \in AllKeys : writes[k] = 1}) = 4

C6_FourthStoreEvictsOldest ==
    FourStoredInTurn =>
        /\ \A p \in Procs :
              th[p].pc = "evict_m" =>
                  /\ th[p].minKey \in DOMAIN lastTime
                  /\ \A j \in DOMAIN lastTime : lastTime[th[p].minKey] <= lastTime[j]
        /\ Quiescent => Cardinality(DOMAIN m) = 3

\* C5: a loader error is returned to every caller that shared the invocation,
\* a caller holding an error never enters Store (so nothing is cached for the
\* key), and the key leaves the group when its loader returns, so that the
\* next miss invokes a loader again.
InStore(p) == th[p].pc \in {"store_scan", "store_write", "evict_m", "evict_t"}

C5_ErrorSharedNotCached ==
    /\ \A p, q \in Procs :
          /\ ret[p].op = "LoadOrStore" /\ ret[q].op = "LoadOrStore"
          /\ ret[p].key = ret[q].key /\ ret[p].cid = ret[q].cid /\ ret[p].cid # 0
          => ret[p].err = ret[q].err /\ ret[p].v = ret[q].v
    /\ \A p \in Procs : InStore(p) => th[p].err = NoErr
    /\ \A k \in DOMAIN m : m[k] \in Vals
    /\ \A k \in Keys :
          Sprint(k) \in g <=> \E p \in Procs : th[p].pc = "loader" /\ th[p].key = k

\* two callers shared one failed invocation, and nothing was cached
C5_Witness ==
    \E p, q \in Procs :
        /\ p # q
        /\ Returned(p, "LoadOrStore", ret[q].key) /\ Returned(q, "LoadOrStore", ret[p].key)
        /\ ret[p].cid = 1 /\ ret[q].cid = 1
        /\ ret[p].err \in Errs /\ ret[q].err = ret[p].err
        /\ ret[p].key \notin DOMAIN m
        /\ loads[ret[p].key] = 1

\* C7: with ttl > 0, a key stored once and not written again is eventually
\* removed from the value store by its expiry timer, which is armed for the
\* full ttl.
ArmedInFull ==
    \A k \in Keys :
        k \notin DOMAIN outTimer /\ k \in DOMAIN outTimer' => outTimer'[k] = outTime

NoMoreCalls == left = 0 /\ \A p \in Procs : th[p].pc = "idle"

C7_StoredOnceExpires ==
    /\ \A k \in Keys :
          (k \in DOMAIN m /\ writes[k] = 1) ~> (k \notin DOMAIN m \/ writes[k] > 1)
    /\ \A k \in Keys :
          (k \in DOMAIN m /\ writes[k] = 1 /\ NoMoreCalls)
          ~> (k \notin DOMAIN m /\ hist[k].kind = "expired")
    /\ [][ArmedInFull]_vars

\* a key written once has been removed by its timer
C7_Witness ==
    \E k \in Keys :
        /\ outTime > 0 /\ writes[k] = 1
        /\ hist[k].kind = "expired" /\ k \notin DOMAIN m
        /\ k \in DOMAIN outTimer /\ outTimer[k] = 0

\* C8: Delete(k) removes k from the value store and from the access tracker,
\* and a Load(k) after Delete(k) has returned, with no Store of k in between,
\* returns not found.
DeleteUntracks ==
    \A p \in Procs :
        th[p].pc = "delete_t" /\ th'[p].pc = "idle" => th[p].key \notin DOMAIN lastTime'

C8_DeleteThenLoadMisses ==
    /\ [](\A k \in Keys : hist[k].kind \in {"deleting", "deleted"} => ~LoadM(m, k).ok)
    /\ [](\A p \in Procs :
             ret[p].op = "Load" /\ ret[p].after.kind = "deleted" => ~ret[p].ok)
    /\ [][DeleteUntracks]_vars

\* a Load of a key that was stored and then deleted returned not found
C8_Witness ==
    \E p \in Procs :
        /\ ret[p].op = "Load" /\ ret[p].after.kind = "deleted" /\ ~ret[p].ok
        /\ writes[ret[p].key] > 0

\* C9: after Clear() has returned, the value store and the access tracker
\* hold nothing for a key stored before the Clear, and Load of such a key
\* returns not found, until the key is stored again.
C9_ClearLeavesNothing ==
    /\ \A k \in Keys :
          hist[k].kind = "cleared" => k \notin DOMAIN m /\ k \notin DOMAIN lastTime
    /\ \A p \in Procs :
          ret[p].op = "Load" /\ ret[p].after.kind = "cleared" => ~ret[p].ok

\* C10: Delete(k) on a key that the cache does not hold changes neither the
\* value store, nor the access tracker, nor the timer registry.
DeleteAbsentNoOp ==
    \A p \in Procs :
        /\ th[p].pc = "idle" /\ th'[p].pc = "delete_t" /\ th'[p].key \notin DOMAIN m
           => UNCHANGED <<m, lastTime, outTimer>>
        /\ th[p].pc = "delete_t" /\ th'[p].pc = "idle" /\ th[p].key \notin DOMAIN lastTime
           => UNCHANGED <<m, lastTime, outTimer>>

C11_NoDeadlock ==
    /\ \A r \in Goroutines : At(r, "Lock") \/ At(r, "RLock") => r.held = {}
    /\ \A r \in Goroutines : ~r.client /\ r.todo = DeleteProg => r.held = {}
    /\ run # EmptyBag => \E r \in Goroutines : ~Blocked(r)

\* a timer-fired Delete holds the value store's lock and a client's Store waits
\* for it, holding nothing
C11_Witness ==
    \E r, q \in Goroutines :
        /\ ~q.client /\ q.todo = Tail(DeleteProg) /\ q.held = {<<"w", GMutex>>}
        /\ r.client /\ r.pend /\ Head(r.todo) = <<"Lock", GMutex>> /\ r.held = {}

\* C12: a key has an entry in the timer registry only if ttl > 0 and the key
\* is in the value store; once a Delete, a Clear, an eviction or an expiry of
\* the key is over, no timer is registered for it.
C12_TimerOnlyIfPresent ==
    /\ \A k \in DOMAIN outTimer : outTime > 0
    /\ \A k \in DOMAIN outTimer :
          hist[k].kind \in {"deleted", "cleared", "expired"} => k \in DOMAIN m
    /\ Quiescent => \A k \in DOMAIN outTimer : k \in DOMAIN m

\* C13: once all operations and detached recency updates have completed, the
\* access tracker has a record for a key if and only if the key is in the
\* value store.
C13_TrackerMatchesStore == Quiescent => DOMAIN lastTime = DOMAIN m

\* C14: LoadOrStore(k, loader) on a key that is in the value store returns the
\* stored value with a nil error, invokes no loader, and leaves the value
\* store as it is.
LoadOrStoreHit ==
    \A p \in Procs, k \in Keys :
        LoadOrStoreCall(p, k) /\ k \in DOMAIN m
        => /\ th'[p].pc = "idle"
           /\ ret'[p].op = "LoadOrStore" /\ ret'[p].key = k
           /\ ret'[p].v = m[k] /\ ret'[p].err = NoErr
           /\ UNCHANGED <<m, loads, g>>

C14_HitReturnsStored == [][LoadOrStoreHit]_vars

\* a LoadOrStore returned the stored value of its key without a loader
C14_Witness ==
    \E p \in Procs :
        /\ Returned(p, "LoadOrStore", ret[p].key) /\ ret[p].cid = 0
        /\ ret[p].key \in DOMAIN m /\ ret[p].v = m[ret[p].key] /\ ret[p].err = NoErr
        /\ loads[ret[p].key] = 0

\* C17: with ttl > 0 the timer registry holds one timer per key, and the
\* arming goroutine of a Store(k, _) leaves every other timer alone, sets a
\* timer already registered for k to ttl / 2, and registers a timer of the
\* full ttl when there is none; so a rewritten key can expire sooner than a
\* full ttl after its last write.
ArmedOrHalved ==
    \A k \in Keys :
        Arm(k) =>
            /\ \A j \in DOMAIN outTimer \ {k} : outTimer'[j] = outTimer[j]
            /\ DOMAIN outTimer' = DOMAIN outTimer \cup {k}
            /\ outTimer'[k] = IF k \in DOMAIN outTimer THEN outTime \div 2 ELSE outTime

C17_RearmHalves ==
    /\ [][ArmedOrHalved]_vars
    /\ [](\A k \in DOMAIN outTimer : outTime > 0 /\ outTimer[k] \in 0..outTime)

\* a key written twice whose timer, already registered, now runs for ttl / 2
C17_Witness ==
    \E k \in Keys :
        /\ outTime > 0 /\ writes[k] >= 2 /\ k \in DOMAIN m
        /\ k \in DOMAIN outTimer /\ outTimer[k] = outTime \div 2 /\ outTimer[k] < outTime
        /\ ~BagIn(Task("arm", k), tasks)

\* C18: a Store(k, v) on a key that is already in the value store only
\* replaces k's value: it removes no other key from the value store or from
\* the access tracker, however many entries the cache holds.
StoreOnPresentKeeps ==
    \A p \in Procs :
        th[p].had =>
            /\ th[p].pc = "evict_m" /\ th'[p].pc = "evict_t"
               => \A j \in DOMAIN m \ {th[p].key} : j \in DOMAIN m'
            /\ th[p].pc = "evict_t" /\ th'[p].pc = "idle"
               => \A j \in DOMAIN lastTime \ {th[p].key} : j \in DOMAIN lastTime'

C18_StoreOnPresentKeepsOthers == [][StoreOnPresentKeeps]_vars

\* C19: when Store(key, v) finds an eviction due, the victim it chooses has a
\* recency record and is not key itself; the entry written for key is still
\* there when Store returns, and exactly one tracked key has been removed.
C19_VictimIsTrackedAndOther ==
    /\ \A p \in Procs :
          th[p].needOut /\ th[p].pc \in {"store_write", "evict_m"}
          => th[p].minKey \in DOMAIN lastTime /\ th[p].minKey # th[p].key
    /\ \A p \in Procs :
          th[p].needOut /\ th[p].pc = "evict_t"
          => th[p].key \in DOMAIN m /\ th[p].minKey \in DOMAIN lastTime

\* C20: with ttl > 0, a timer armed for a key before the key was removed (by
\* Delete, Clear or an eviction) never removes a value that a later Store
\* wrote: a timer-fired Delete removes an entry only if the key's timer was
\* armed or reset after the key was last removed.
OldTimerHarmless ==
    \A k \in Keys :
        ExpireM(k) /\ k \in DOMAIN m /\ hist[k].kind = "stored" => fresh[k]

C20_OldTimerIsNoOp == [][OldTimerHarmless]_vars

\* C15 (as claimed): after any Adds and Removes the counter of a key is the
\* number of its Adds minus the number of its Removes that found it, and the
\* key is in the set (Contains is true) exactly when that number is at least 1.
Matches(k) == (ContainsS(sm, k) <=> net[k] # Zero) /\ Counter(sm, k) = net[k]

C15_CounterIsAddsMinusRemoves == \A k \in Keys : Matches(k)

\* C15 (amended): the same, as long as the number of Adds minus Removes of the
\* key does not pass 2^32 - 1, the largest value of the uint32 counter; and a
\* Remove of an absent key changes nothing.
CountingStep ==
    /\ \A k \in Keys : Matches(k) /\ AtMost(net'[k], MaxUint32) => Matches(k)'
    /\ \A p \in Procs, k \in Keys :
          ContainsCall(p, k) /\ Matches(k) => (ret'[p].ok <=> net[k] # Zero)
    /\ \A p \in Procs, k \in Keys :
          RemoveCall(p, k) /\ ~ContainsS(sm, k) => UNCHANGED <<sm, net>>

C15_CounterWithinUint32 ==
    /\ \A k \in Keys : Matches(k)
    /\ [][CountingStep]_vars

\* a key added 2^32 - 1 times holds the largest counter, and Contains found it
C15_Witness ==
    \E p \in Procs :
        /\ ret[p].op = "Contains" /\ ret[p].ok
        /\ ContainsS(sm, ret[p].key) /\ sm[ret[p].key] = MaxUint32
        /\ net[ret[p].key] = MaxUint32

\* C16: under any interleaving of Store(key, cb) and Cancel(key), a Cancel
\* removes the callback registered for key and invokes that same callback
\* once: no callback is invoked more than once; the callback a Cancel takes out
\* of the registry is the one it read and will invoke; and when no Cancel is in
\* progress, the callbacks invoked are exactly the callbacks removed.
C16_CancelInvokesRemovedOnce ==
    /\ \A f \in Callbacks : invoked[f] <= 1
    /\ \A p \in Procs :
          th[p].pc = "cancel_delete" /\ th[p].key \in DOMAIN im
          => im[th[p].key] = th[p].data
    /\ (\A p \in Procs : th[p].pc = "idle")
          => \A f \in Callbacks : f \in dropped <=> invoked[f] = 1
====
